---- MODULE Spec2Model ----
(***************************************************************************)
(* Model of labforge: the lab lifecycle controller (controller.py), the   *)
(* on-disk lab state store (lab_state.py), the subnet allocator           *)
(* (network.py) and template validation (config.py).                      *)
(*                                                                         *)
(* A process is one CLI invocation.  Its position inside the controller   *)
(* method it runs is pc[p]; every step is one access to the data          *)
(* directory or one call of the container runtime.  Spec runs the         *)
(* operations one at a time (a single operator); SpecConc lets the        *)
(* invocations of several operators interleave.                            *)
(*                                                                         *)
(* Addresses are kept relative to BASE_NETWORK.network_address            *)
(* (172.30.0.0), so the /24 with third octet k is the integer k and its   *)
(* network address is k * 256.                                             *)
(***************************************************************************)
EXTENDS Integers, Sequences, FiniteSets, TLC


\* --------------------------------------------------------------- constants
BASE_PREFIX == 16
SUBNET_PREFIX == 24

NumSubnets == 2 ^ (SUBNET_PREFIX - BASE_PREFIX)
SubnetSize == 2 ^ (32 - SUBNET_PREFIX)

Procs == {"op1", "op2"}
Operator == "op1"

\* Lab ids "<prefix>-<hash>": every id of the model shares the prefix "a".
LabIds == {<<"a", "1">>, <<"a", "2">>}
NoId == <<>>
Partials == {<<"a">>} \cup LabIds

Statuses == {"building", "running", "stopped", "error", "destroyed"}

\* ------------------------------------------------------------- config.py
TemplateNames == {"malware-lab", "far-offset", "no-image", "absent"}

TemplateExists(template) == template # "absent"

LoadConfig(template) ==
  CASE template = "malware-lab" ->
         [name |-> "malware-lab",
          services |-> << [name |-> "victim", image |-> "ubuntu:22.04", ip_offset |-> 10] >>]
    [] template = "far-offset" ->
         [name |-> "far-offset",
          services |-> << [name |-> "victim", image |-> "ubuntu:22.04", ip_offset |-> 10],
                          [name |-> "c2", image |-> "kali", ip_offset |-> 300] >>]
    [] template = "post-start" ->
         [name |-> "post-start",
          services |-> << [name |-> "victim", image |-> "ubuntu:22.04", ip_offset |-> 10,
                           post_start |-> <<"apt-get update", "useradd analyst">>],
                          [name |-> "c2", image |-> "kali", ip_offset |-> 20,
                           post_start |-> <<"msfdb init">>] >>]
    [] OTHER ->
         [name |-> "no-image",
          services |-> << [name |-> "victim", ip_offset |-> 10] >>]

\* the check of ip_offset is missing
ValidateConfigIgnoringOffset(config) ==
  /\ "name" \in DOMAIN config
  /\ "services" \in DOMAIN config
  /\ config.services # << >>
  /\ \A i \in DOMAIN config.services :
       /\ "name" \in DOMAIN config.services[i]
       /\ "image" \in DOMAIN config.services[i]

\* raises ConfigError unless every required key is present; the values are
\* not looked at
ValidateConfig(config) ==
  /\ "name" \in DOMAIN config
  /\ "services" \in DOMAIN config
  /\ config.services # << >>
  /\ \A i \in DOMAIN config.services :
       /\ "name" \in DOMAIN config.services[i]
       /\ "image" \in DOMAIN config.services[i]
       /\ "ip_offset" \in DOMAIN config.services[i]

\* A YAML value is tagged with its Python type: a str holds its characters,
\* a list its items, a dict its entries, an int its number.
YStr(chars) == [t |-> "str", v |-> chars]
YInt(n) == [t |-> "int", v |-> n]
YList(items) == [t |-> "list", v |-> items]
YDict(entries) == [t |-> "dict", v |-> entries]

\* \w of the pattern: every character of the model but these
IsWord(c) == c \notin {"$", "{", "}", "-"}

\* str(value) of a settings value
Digits == <<"0", "1", "2", "3", "4", "5", "6", "7", "8", "9">>
ToStr(value) == IF value.t = "int" THEN <<Digits[value.v + 1]>> ELSE value.v

\* re: the index of the "}" that closes a match of \$\{(\w+)\} starting at
\* chars[i], or 0 when none starts there
MatchEnd(chars, i) ==
  IF chars[i] = "$" /\ i + 1 <= Len(chars) /\ chars[i + 1] = "{"
  THEN LET stops == {j \in (i + 2)..Len(chars) : ~IsWord(chars[j])}
       IN  IF stops = {} THEN 0
           ELSE LET j == CHOOSE x \in stops : \A y \in stops : x <= y
                IN  IF j > i + 2 /\ chars[j] = "}" THEN j ELSE 0
  ELSE 0

\* the environment is looked up before the settings
SubEnvFirst(key, whole, lookup, env) ==
  IF key \in DOMAIN env THEN env[key]
  ELSE IF key \in DOMAIN lookup THEN ToStr(lookup[key])
  ELSE whole

\* _sub(m): the settings value, else the environment value, else the match
Sub(key, whole, lookup, env) ==
  IF key \in DOMAIN lookup THEN ToStr(lookup[key])
  ELSE IF key \in DOMAIN env THEN env[key]
  ELSE whole

\* re.sub(pattern, _sub, obj) from chars[i] on: matches are taken from left
\* to right and what replaces a match is not scanned again
RECURSIVE ReSub(_, _, _, _)
ReSub(chars, i, lookup, env) ==
  IF i > Len(chars) THEN << >>
  ELSE LET end == MatchEnd(chars, i)
       IN  IF end = 0 THEN <<chars[i]>> \o ReSub(chars, i + 1, lookup, env)
           ELSE Sub(SubSeq(chars, i + 2, end - 1), SubSeq(chars, i, end), lookup, env)
                  \o ReSub(chars, end + 1, lookup, env)

\* _replace(obj): strings are substituted, dicts and lists are walked, any
\* other value is returned as it is
RECURSIVE Replace(_, _, _)
Replace(obj, lookup, env) ==
  CASE obj.t = "str"  -> YStr(ReSub(obj.v, 1, lookup, env))
    [] obj.t = "dict" -> YDict([k \in DOMAIN obj.v |-> Replace(obj.v[k], lookup, env)])
    [] obj.t = "list" -> YList([i \in DOMAIN obj.v |-> Replace(obj.v[i], lookup, env)])
    [] OTHER -> obj

\* settings = config.get("settings", {}); lookup = {**settings}
InterpolateVariables(config, env) ==
  LET lookup == IF "settings" \in DOMAIN config.v THEN config.v.settings.v ELSE << >>
  IN  Replace(config, lookup, env)

\* build: if overrides: config.setdefault("settings", {}).update(overrides)
MergeOverrides(config, overrides) ==
  IF DOMAIN overrides = {} THEN config
  ELSE LET settings == IF "settings" \in DOMAIN config.v THEN config.v.settings.v
                       ELSE << >>
           merged == [k \in DOMAIN settings \cup DOMAIN overrides |->
                        IF k \in DOMAIN overrides THEN overrides[k] ELSE settings[k]]
       IN  YDict([k \in DOMAIN config.v \cup {"settings"} |->
                   IF k = "settings" THEN YDict(merged) ELSE config.v[k]])

\* ------------------------------------------------------------ network.py
NetworkAddress(subnet) == subnet * SubnetSize

InSubnet(ip, subnet) ==
  /\ NetworkAddress(subnet) <= ip
  /\ ip <= NetworkAddress(subnet) + SubnetSize - 1

SetMin(S) == CHOOSE x \in S : \A y \in S : x <= y

AllocateIgnoringUsed(used) ==
  LET free == {k \in 0..(NumSubnets - 1) : k # 0}
  IN  [ok |-> TRUE, subnet |-> SetMin(free)]

\* the first block is handed out like any other
AllocateNotSkippingFirst(used) ==
  LET free == {k \in 0..(NumSubnets - 1) : k \notin used}
  IN  IF free = {} THEN [ok |-> FALSE, subnet |-> 0]
      ELSE [ok |-> TRUE, subnet |-> SetMin(free)]

\* the iteration stops one block early
AllocateMissingLast(used) ==
  LET free == {k \in 0..(NumSubnets - 2) : k # 0 /\ k \notin used}
  IN  IF free = {} THEN [ok |-> FALSE, subnet |-> 0]
      ELSE [ok |-> TRUE, subnet |-> SetMin(free)]

\* for subnet in BASE_NETWORK.subnets(new_prefix=SUBNET_PREFIX): the blocks
\* come in ascending order; the one at the base address is skipped and the
\* first one that is not in self.used is returned
Allocate(used) ==
  LET free == {k \in 0..(NumSubnets - 1) : k # 0 /\ k \notin used}
  IN  IF free = {} THEN [ok |-> FALSE, subnet |-> 0]
      ELSE [ok |-> TRUE, subnet |-> SetMin(free)]

\* 255.255.255.255, the highest IPv4 address, relative to 172.30.0.0
BaseHigh == 172 * 256 + 30
MaxAddress == (2 ^ 16 - 1 - BaseHigh) * 2 ^ 16 + (2 ^ 16 - 1)

\* ip = net.network_address + offset raises AddressValueError, a ValueError,
\* when the sum is not an IPv4 address; the sum of a block's address and a
\* negative 32-bit offset never falls below 0.0.0.0.  A sum that is an
\* address but not in net raises NetworkError.
ComputeIp(subnet, offset) ==
  IF offset > MaxAddress - NetworkAddress(subnet)
  THEN [ok |-> FALSE, ip |-> 0, err |-> "ValueError"]
  ELSE LET ip == NetworkAddress(subnet) + offset
       IN  IF InSubnet(ip, subnet) THEN [ok |-> TRUE, ip |-> ip, err |-> "none"]
           ELSE [ok |-> FALSE, ip |-> 0, err |-> "NetworkError"]

\* what the first failing compute_ip of a list of services raises
FirstError(services, subnet) ==
  LET bad == {i \in DOMAIN services : ~ComputeIp(subnet, services[i].ip_offset).ok}
  IN  IF bad = {} THEN "none"
      ELSE ComputeIp(subnet, services[SetMin(bad)].ip_offset).err

\* ------------------------------------------------------------ compose.py
\* generate() computes the address of every service; the first offset that
\* falls outside the subnet raises NetworkError.
GenerateUnchecked(services, subnet) == TRUE

\* the offset of a service that declares network_mode is not looked at
GenerateOkSkippingNetworkMode(services, subnet) ==
  \A i \in DOMAIN services :
    \/ "network_mode" \in DOMAIN services[i]
    \/ ComputeIp(subnet, services[i].ip_offset).ok

GenerateOk(services, subnet) ==
  \A i \in DOMAIN services : ComputeIp(subnet, services[i].ip_offset).ok

\* a dict: d[k] = v and d.pop(k, None)
Put(d, k, v) == [x \in DOMAIN d \cup {k} |-> IF x = k THEN v ELSE d[x]]
Pop(d, k) == [x \in DOMAIN d \ {k} |-> d[x]]

\* the keys of a service that _build_service copies as they are
PassThrough ==
  {"hostname", "ports", "environment", "volumes", "healthcheck", "depends_on",
   "command", "restart", "privileged"}

Windows(svc) == "platform" \in DOMAIN svc /\ svc.platform = "windows-docker"

GatewayIp(subnet) == NetworkAddress(subnet) + 1

NetworkName(lab_id) == <<"labforge-">> \o lab_id

\* if svc.get("platform") == "windows-docker": devices, cap_add,
\* stop_grace_period
ApplyPlatform(service, svc) ==
  IF Windows(svc)
  THEN Put(Put(Put(service, "devices", <<"/dev/kvm">>),
               "cap_add", <<"NET_ADMIN">>),
           "stop_grace_period", "120s")
  ELSE service

\* if "resources" in svc: deploy.resources.limits, with cpus as a string
ApplyResources(service, svc) ==
  IF "resources" \in DOMAIN svc
  THEN Put(service, "deploy",
           [resources |->
              [limits |->
                 [k \in DOMAIN svc.resources \cap {"memory", "cpus"} |->
                    IF k = "cpus" THEN <<"str", svc.resources[k]>>
                    ELSE svc.resources[k]]]])
  ELSE service

ApplyPassThrough(service, svc) ==
  [k \in DOMAIN service \cup (PassThrough \cap DOMAIN svc) |->
     IF k \in PassThrough \cap DOMAIN svc THEN svc[k] ELSE service[k]]

\* if "cap_add" in svc and svc.get("platform") != "windows-docker"
ApplyCapAdd(service, svc) ==
  IF "cap_add" \in DOMAIN svc /\ ~Windows(svc)
  THEN Put(service, "cap_add", svc.cap_add)
  ELSE service

\* the networks entry stays next to network_mode
ApplyNetworkModeKeepingNetworks(service, svc) ==
  IF "network_mode" \in DOMAIN svc
  THEN Put(service, "network_mode", svc.network_mode)
  ELSE service

\* if "network_mode" in svc: set it and pop "networks"
ApplyNetworkMode(service, svc) ==
  IF "network_mode" \in DOMAIN svc
  THEN Pop(Put(service, "network_mode", svc.network_mode), "networks")
  ELSE service

\* _build_service once compute_ip has returned ip
BuildService(svc, subnet, network_name) ==
  LET ip == ComputeIp(subnet, svc.ip_offset).ip
      base == [image |-> svc.image, container_name |-> svc.name]
      attached == Put(base, "networks", network_name :> [ipv4_address |-> ip])
  IN  ApplyNetworkMode(
        ApplyCapAdd(
          ApplyPassThrough(
            ApplyResources(ApplyPlatform(attached, svc), svc), svc), svc), svc)

\* compose["services"][name] = service_def on a dict that keeps insertion
\* order: a key that is present keeps its place and takes the new value
DictSet(d, k, v) ==
  IF \E i \in DOMAIN d : d[i].key = k
  THEN [i \in DOMAIN d |-> IF d[i].key = k THEN [key |-> k, value |-> v] ELSE d[i]]
  ELSE Append(d, [key |-> k, value |-> v])

\* for svc in config["services"], up to the n-th
RECURSIVE BuildServices(_, _, _, _)
BuildServices(services, n, subnet, network_name) ==
  IF n = 0 THEN << >>
  ELSE DictSet(BuildServices(services, n - 1, subnet, network_name),
               services[n].name,
               BuildService(services[n], subnet, network_name))

\* generate(config, subnet, lab_id): the manifest, or what compute_ip raised
Generate(config, subnet, lab_id) ==
  IF ~GenerateOk(config.services, subnet)
  THEN [ok |-> FALSE, err |-> FirstError(config.services, subnet), manifest |-> << >>]
  ELSE LET network_name == NetworkName(lab_id)
           top == [version  |-> "3.8",
                   services |-> BuildServices(config.services, Len(config.services),
                                              subnet, network_name),
                   networks |-> network_name :>
                                  [driver |-> "bridge",
                                   ipam |-> [config |-> << [subnet  |-> subnet,
                                                            gateway |-> GatewayIp(subnet)] >>]]]
       IN  [ok |-> TRUE, err |-> "none",
            manifest |-> IF "volumes" \in DOMAIN config /\ config.volumes # << >>
                         THEN Put(top, "volumes", config.volumes)
                         ELSE top]

\* ---------------------------------------------------------- lab_state.py
VARIABLES
  dirs,      \* lab ids whose directory data/<lab-id> exists
  records,   \* lab id -> contents of data/<lab-id>/state.yml, where it exists
  compose,   \* lab ids whose docker-compose.yml exists
  runtime,   \* lab ids whose compose project labforge-<lab-id> is applied
  pc,        \* process -> position in the controller method it runs
  op,        \* process -> arguments and locals of that method
  result,    \* process -> outcome of the method it ran last
  arg,       \* input of the function that is exercised on its own
  ret        \* what its last call returned or raised

vars == <<dirs, records, compose, runtime, pc, op, result, arg, ret>>
disk == <<dirs, records, compose>>

IsPrefix(s, t) == Len(s) <= Len(t) /\ SubSeq(t, 1, Len(s)) = s

Exists(recs, id) == id \in DOMAIN recs

\* only running labs hold their subnet
UsedSubnetsRunningOnly(recs) ==
  {recs[id].subnet : id \in {x \in DOMAIN recs : recs[x].status = "running"}}

\* list_all() reads every record; the subnets of those whose status is not
\* "destroyed" are reported
UsedSubnets(recs) ==
  {recs[id].subnet : id \in {x \in DOMAIN recs : recs[x].status # "destroyed"}}

CreateRecordReallocating(lab_id, template, config, subnet) ==
  [lab_id   |-> lab_id,
   template |-> template,
   name     |-> config.name,
   status   |-> "building",
   subnet   |-> Allocate(UsedSubnets(records)).subnet,
   services |-> [i \in DOMAIN config.services |->
                   [name      |-> config.services[i].name,
                    image     |-> config.services[i].image,
                    ip_offset |-> config.services[i].ip_offset,
                    platform  |-> IF "platform" \in DOMAIN config.services[i]
                                  THEN config.services[i].platform
                                  ELSE "linux"]]]

\* the services are recorded in reverse order
CreateRecordReversed(lab_id, template, config, subnet) ==
  [lab_id   |-> lab_id,
   template |-> template,
   name     |-> config.name,
   status   |-> "building",
   subnet   |-> subnet,
   services |-> [i \in DOMAIN config.services |->
                   LET svc == config.services[Len(config.services) + 1 - i]
                   IN  [name      |-> svc.name,
                        image     |-> svc.image,
                        ip_offset |-> svc.ip_offset,
                        platform  |-> IF "platform" \in DOMAIN svc
                                      THEN svc.platform ELSE "linux"]]]

CreateRecord(lab_id, template, config, subnet) ==
  [lab_id   |-> lab_id,
   template |-> template,
   name     |-> config.name,
   status   |-> "building",
   subnet   |-> subnet,
   services |-> [i \in DOMAIN config.services |->
                   [name      |-> config.services[i].name,
                    image     |-> config.services[i].image,
                    ip_offset |-> config.services[i].ip_offset,
                    platform  |-> IF "platform" \in DOMAIN config.services[i]
                                  THEN config.services[i].platform
                                  ELSE "linux"]]]

WriteRecord(recs, id, rec) ==
  [x \in DOMAIN recs \cup {id} |-> IF x = id THEN rec ELSE recs[x]]

RemoveRecordKeepingState(recs, id) == recs

RemoveRecord(recs, id) == [x \in DOMAIN recs \ {id} |-> recs[x]]

UpdateStatusRollingBack(recs, id, status) ==
  IF status = "error" THEN RemoveRecord(recs, id)
  ELSE WriteRecord(recs, id, [recs[id] EXCEPT !.status = status])

\* every record of the store gets the status
UpdateStatusOfAll(recs, id, status) ==
  [x \in DOMAIN recs |-> [recs[x] EXCEPT !.status = status]]

\* update_status after its load succeeded
UpdateStatus(recs, id, status) ==
  WriteRecord(recs, id, [recs[id] EXCEPT !.status = status])

ResolveMatches(ds, recs, partial) ==
  {id \in ds : IsPrefix(partial, id) /\ Exists(recs, id)}

\* a directory named exactly `partial` wins over longer names
ResolveIdPreferringExact(ds, recs, partial) ==
  LET matches == ResolveMatches(ds, recs, partial)
  IN  IF partial \in matches THEN [ok |-> TRUE, id |-> partial, err |-> "none"]
      ELSE IF Cardinality(matches) = 1
      THEN [ok |-> TRUE, id |-> CHOOSE id \in matches : TRUE, err |-> "none"]
      ELSE [ok |-> FALSE, id |-> NoId,
            err |-> IF matches = {} THEN "LabNotFound" ELSE "AmbiguousId"]

\* both failures raise StateError: "No lab(s) found ..." when nothing matches
\* (or DATA_DIR is missing), "Ambiguous lab ID ..." when several do
ResolveId(ds, recs, partial) ==
  LET matches == ResolveMatches(ds, recs, partial)
  IN  IF Cardinality(matches) = 1
      THEN [ok |-> TRUE, id |-> CHOOSE id \in matches : TRUE, err |-> "none"]
      ELSE [ok |-> FALSE, id |-> NoId,
            err |-> IF matches = {} THEN "LabNotFound" ELSE "AmbiguousId"]

\* ---------------------------------------------------------- controller.py
\* _print_access_info computes the address of every service of the record;
\* an offset outside the subnet raises NetworkError
AccessInfoOk(rec) ==
  \A i \in DOMAIN rec.services : ComputeIp(rec.subnet, rec.services[i].ip_offset).ok

StartAllowedUnlessRunning(status) == status # "running"

StartAllowed(status) == status \in {"stopped", "error"}

StopAllowedUnlessStopped(status) == status # "stopped"

StopAllowed(status) == status = "running"

DestroyNoopMisspelt(status, force) == status = "destroy" /\ ~force

DestroyNoopIgnoringForce(status, force) == status = "destroyed"

DestroyNoop(status, force) == status = "destroyed" /\ ~force

TeardownFailureAlwaysRaised(force) == TRUE

\* except DockerError: if not force: raise
TeardownFailureRaised(force) == ~force

NoOp ==
  [name |-> "none", partial |-> NoId, id |-> NoId, force |-> FALSE,
   template |-> "absent", subnet |-> 0, status |-> "none", err |-> "none",
   log |-> << >>]

Outcomes == {"none", "ok", "ok-without-ps", "noop", "ConfigError", "StateError", "NetworkError",
             "DockerError", "ValueError", "FileNotFoundError", "Interrupted"}

\* the method returns or raises: only its name and outcome stay visible
Finish(p, res) ==
  /\ pc' = [pc EXCEPT ![p] = "idle"]
  /\ op' = [op EXCEPT ![p] = [NoOp EXCEPT !.name = op[p].name]]
  /\ result' = [result EXCEPT ![p] = res]
  /\ UNCHANGED <<arg, ret>>

Goto(p, o, where) ==
  /\ pc' = [pc EXCEPT ![p] = where]
  /\ op' = [op EXCEPT ![p] = o]
  /\ UNCHANGED <<result, arg, ret>>

\* a command is invoked with its arguments
Invoke(p, o, where) ==
  /\ pc[p] = "idle"
  /\ pc' = [pc EXCEPT ![p] = where]
  /\ op' = [op EXCEPT ![p] = o]
  /\ result' = [result EXCEPT ![p] = "none"]
  /\ UNCHANGED <<dirs, records, compose, runtime, arg, ret>>

\* no lab exists and no command runs
Idle ==
  /\ dirs = {}
  /\ records = << >>
  /\ compose = {}
  /\ runtime = {}
  /\ pc = [p \in Procs |-> "idle"]
  /\ op = [p \in Procs |-> NoOp]
  /\ result = [p \in Procs |-> "none"]

NoCall == [fn |-> "none"]

Init ==
  /\ Idle
  /\ arg = NoCall
  /\ ret = NoCall

\* labforge build -t TEMPLATE
BuildOf(p, templates) ==
  \E template \in templates :
    Invoke(p, [NoOp EXCEPT !.name = "build", !.template = template], "b_load")

\* resolve_template, load_config, validate_config, generate_lab_id.  The id
\* is a hash of the name and the clock and is not checked against the ids
\* that exist, so any id may come out.
BuildLoad(p) ==
  /\ pc[p] = "b_load"
  /\ IF ~TemplateExists(op[p].template) \/ ~ValidateConfig(LoadConfig(op[p].template))
     THEN Finish(p, "ConfigError")
     ELSE \E id \in LabIds : Goto(p, [op[p] EXCEPT !.id = id], "b_alloc")
  /\ UNCHANGED <<dirs, records, compose, runtime>>

\* the lab's directory is made before the subnet is asked for
BuildAllocateAfterMkdir(p) ==
  /\ pc[p] = "b_alloc"
  /\ dirs' = dirs \cup {op[p].id}
  /\ LET a == Allocate(UsedSubnets(records))
     IN  IF a.ok
         THEN Goto(p, [op[p] EXCEPT !.subnet = a.subnet], "b_mkdir")
         ELSE Finish(p, "NetworkError")
  /\ UNCHANGED <<records, compose, runtime>>

\* used = LabState.used_subnets(); subnet = NetworkAllocator(used).allocate()
BuildAllocate(p) ==
  /\ pc[p] = "b_alloc"
  /\ LET a == Allocate(UsedSubnets(records))
     IN  IF a.ok
         THEN Goto(p, [op[p] EXCEPT !.subnet = a.subnet], "b_mkdir")
         ELSE Finish(p, "NetworkError")
  /\ UNCHANGED <<dirs, records, compose, runtime>>

\* state.create(template, config, subnet): self.lab_dir.mkdir(...)
BuildMkdir(p) ==
  /\ pc[p] = "b_mkdir"
  /\ dirs' = dirs \cup {op[p].id}
  /\ Goto(p, op[p], "b_create")
  /\ UNCHANGED <<records, compose, runtime>>

\* state.create(template, config, subnet): self._write(state)
BuildCreate(p) ==
  /\ pc[p] = "b_create"
  /\ UNCHANGED dirs
  /\ records' = WriteRecord(records, op[p].id,
                  CreateRecord(op[p].id, op[p].template,
                               LoadConfig(op[p].template), op[p].subnet))
  /\ Goto(p, op[p], "b_gen")
  /\ UNCHANGED <<compose, runtime>>

\* generator.generate(...) and generator.write(...)
BuildGenerate(p) ==
  /\ pc[p] = "b_gen"
  /\ IF GenerateOk(LoadConfig(op[p].template).services, op[p].subnet)
     THEN /\ dirs' = dirs \cup {op[p].id}
          /\ compose' = compose \cup {op[p].id}
          /\ Goto(p, op[p], "b_up")
     ELSE /\ UNCHANGED <<dirs, compose>>
          /\ LET err == FirstError(LoadConfig(op[p].template).services, op[p].subnet)
             IN  IF err = "NetworkError"
                 THEN Goto(p, [op[p] EXCEPT !.err = err], "b_err")
                 ELSE Finish(p, err)
  /\ UNCHANGED <<records, runtime>>

\* docker.up()
BuildUp(p) ==
  /\ pc[p] = "b_up"
  /\ \E ok \in BOOLEAN :
       IF ok
       THEN /\ runtime' = runtime \cup {op[p].id}
            /\ Goto(p, op[p], "b_run")
       ELSE /\ UNCHANGED runtime
            /\ Goto(p, [op[p] EXCEPT !.err = "DockerError"], "b_err")
  /\ UNCHANGED <<dirs, records, compose>>

\* a record that is gone is handled like a failed docker.up()
BuildRunningCatchingMissing(p) ==
  /\ pc[p] = "b_run"
  /\ IF Exists(records, op[p].id)
     THEN /\ records' = UpdateStatus(records, op[p].id, "running")
          /\ Goto(p, op[p], "b_post")
     ELSE /\ UNCHANGED records
          /\ Goto(p, [op[p] EXCEPT !.err = "StateError"], "b_err")
  /\ UNCHANGED <<dirs, compose, runtime>>

\* state.update_status("running")
BuildRunning(p) ==
  /\ pc[p] = "b_run"
  /\ IF Exists(records, op[p].id)
     THEN /\ records' = UpdateStatus(records, op[p].id, "running")
          /\ Goto(p, op[p], "b_post")
     ELSE /\ UNCHANGED records
          /\ Finish(p, "StateError")
  /\ UNCHANGED <<dirs, compose, runtime>>

\* svc.get("post_start", []) of one service
PostStartOf(svc) ==
  IF "post_start" \in DOMAIN svc
  THEN [i \in DOMAIN svc.post_start |-> [service |-> svc.name, cmd |-> svc.post_start[i]]]
  ELSE << >>

\* the commands _run_post_start goes through: the services in the order of
\* the template, the commands of each in the order of its list
RECURSIVE PostStartCommands(_)
PostStartCommands(services) ==
  IF services = << >> THEN << >>
  ELSE PostStartOf(Head(services)) \o PostStartCommands(Tail(services))

\* self._print_access_info(lab_id), then _run_post_start begins
BuildPost(p) ==
  /\ pc[p] = "b_post"
  /\ IF ~Exists(records, op[p].id)
     THEN Finish(p, "StateError")
     ELSE IF ~AccessInfoOk(records[op[p].id])
     THEN LET err == FirstError(records[op[p].id].services, records[op[p].id].subnet)
          IN  IF err = "NetworkError"
              THEN Goto(p, [op[p] EXCEPT !.err = err], "b_err")
              ELSE Finish(p, err)
     ELSE IF PostStartCommands(LoadConfig(op[p].template).services) = << >>
     THEN Finish(p, "ok")
     ELSE Goto(p, op[p], "b_exec")
  /\ UNCHANGED <<dirs, records, compose, runtime>>

\* _run_post_start, one command: docker.exec(svc["name"], ["sh", "-c", cmd]).
\* exec turns a non-zero exit (CalledProcessError) into DockerError, which
\* _run_post_start reports as a warning before it goes on; a docker binary
\* that is not found raises FileNotFoundError, which exec does not convert
\* and nothing in build catches.  op[p].log holds the commands run so far.
BuildExec(p) ==
  /\ pc[p] = "b_exec"
  /\ LET cmds == PostStartCommands(LoadConfig(op[p].template).services)
         k == Len(op[p].log) + 1
     IN  \E out \in {"ok", "DockerError", "FileNotFoundError"} :
           IF out = "FileNotFoundError"
           THEN Finish(p, "FileNotFoundError")
           ELSE IF k = Len(cmds)
           THEN Finish(p, "ok")
           ELSE Goto(p, [op[p] EXCEPT !.log = Append(@, [service |-> cmds[k].service,
                                                         cmd |-> cmds[k].cmd,
                                                         out |-> out])],
                     "b_exec")
  /\ UNCHANGED <<dirs, records, compose, runtime>>

\* except (DockerError, NetworkError): state.update_status("error"); raise
BuildError(p) ==
  /\ pc[p] = "b_err"
  /\ IF Exists(records, op[p].id)
     THEN /\ records' = UpdateStatus(records, op[p].id, "error")
          /\ Finish(p, op[p].err)
     ELSE /\ UNCHANGED records
          /\ Finish(p, "StateError")
  /\ UNCHANGED <<dirs, compose, runtime>>

\* labforge destroy LAB_ID [--force]
Destroy(p) ==
  \E partial \in Partials, force \in BOOLEAN :
    Invoke(p, [NoOp EXCEPT !.name = "destroy", !.partial = partial,
                           !.force = force], "d_load")

\* resolve_id, load, the already-destroyed check
DestroyLoad(p) ==
  /\ pc[p] = "d_load"
  /\ LET r == ResolveId(dirs, records, op[p].partial)
     IN  IF ~r.ok
         THEN Finish(p, "StateError")
         ELSE IF DestroyNoop(records[r.id].status, op[p].force)
         THEN Finish(p, "noop")
         ELSE Goto(p, [op[p] EXCEPT !.id = r.id,
                                    !.status = records[r.id].status], "d_down")
  /\ UNCHANGED <<dirs, records, compose, runtime>>

\* if compose_file.exists(): docker.down(), a failure being a warning under
\* force and raised otherwise
DestroyDown(p) ==
  /\ pc[p] = "d_down"
  /\ IF op[p].id \in compose
     THEN \E ok \in BOOLEAN :
            IF ok
            THEN /\ runtime' = runtime \ {op[p].id}
                 /\ Goto(p, op[p], "d_mark")
            ELSE /\ UNCHANGED runtime
                 /\ IF TeardownFailureRaised(op[p].force)
                    THEN Finish(p, "DockerError")
                    ELSE Goto(p, [op[p] EXCEPT !.err = "DockerError"], "d_mark")
     ELSE /\ UNCHANGED runtime
          /\ Goto(p, op[p], "d_mark")
  /\ UNCHANGED <<dirs, records, compose>>

\* state.update_status("destroyed")
DestroyMark(p) ==
  /\ pc[p] = "d_mark"
  /\ IF Exists(records, op[p].id)
     THEN /\ records' = UpdateStatus(records, op[p].id, "destroyed")
          /\ Goto(p, op[p], "d_del")
     ELSE /\ UNCHANGED records
          /\ Finish(p, "StateError")
  /\ UNCHANGED <<dirs, compose, runtime>>

\* state.delete()
DestroyDelete(p) ==
  /\ pc[p] = "d_del"
  /\ dirs' = dirs \ {op[p].id}
  /\ records' = RemoveRecord(records, op[p].id)
  /\ compose' = compose \ {op[p].id}
  /\ Finish(p, "ok")
  /\ UNCHANGED runtime

\* labforge start LAB_ID
Start(p) ==
  \E partial \in Partials :
    Invoke(p, [NoOp EXCEPT !.name = "start", !.partial = partial], "s_load")

\* resolve_id, load, the status check
StartLoad(p) ==
  /\ pc[p] = "s_load"
  /\ LET r == ResolveId(dirs, records, op[p].partial)
     IN  IF ~r.ok
         THEN Finish(p, "StateError")
         ELSE IF ~StartAllowed(records[r.id].status)
         THEN Finish(p, "noop")
         ELSE Goto(p, [op[p] EXCEPT !.id = r.id,
                                    !.status = records[r.id].status], "s_docker")
  /\ UNCHANGED <<dirs, records, compose, runtime>>

\* a failed docker.start() marks the lab as in error before it is raised
StartDockerMarkingError(p) ==
  /\ pc[p] = "s_docker"
  /\ \E ok \in BOOLEAN :
       IF ok THEN Goto(p, op[p], "s_mark") /\ UNCHANGED records
       ELSE /\ records' = UpdateStatus(records, op[p].id, "error")
            /\ Finish(p, "DockerError")
  /\ UNCHANGED <<dirs, compose, runtime>>

\* docker.start()
StartDocker(p) ==
  /\ pc[p] = "s_docker"
  /\ \E ok \in BOOLEAN :
       IF ok THEN Goto(p, op[p], "s_mark") ELSE Finish(p, "DockerError")
  /\ UNCHANGED <<dirs, records, compose, runtime>>

\* state.update_status("running")
StartMark(p) ==
  /\ pc[p] = "s_mark"
  /\ IF Exists(records, op[p].id)
     THEN /\ records' = UpdateStatus(records, op[p].id, "running")
          /\ Finish(p, "ok")
     ELSE /\ UNCHANGED records
          /\ Finish(p, "StateError")
  /\ UNCHANGED <<dirs, compose, runtime>>

\* labforge stop LAB_ID
Stop(p) ==
  \E partial \in Partials :
    Invoke(p, [NoOp EXCEPT !.name = "stop", !.partial = partial], "t_load")

\* resolve_id, load, the status check
StopLoad(p) ==
  /\ pc[p] = "t_load"
  /\ LET r == ResolveId(dirs, records, op[p].partial)
     IN  IF ~r.ok
         THEN Finish(p, "StateError")
         ELSE IF ~StopAllowed(records[r.id].status)
         THEN Finish(p, "noop")
         ELSE Goto(p, [op[p] EXCEPT !.id = r.id,
                                    !.status = records[r.id].status], "t_docker")
  /\ UNCHANGED <<dirs, records, compose, runtime>>

\* docker.stop()
StopDocker(p) ==
  /\ pc[p] = "t_docker"
  /\ \E ok \in BOOLEAN :
       IF ok THEN Goto(p, op[p], "t_mark") ELSE Finish(p, "DockerError")
  /\ UNCHANGED <<dirs, records, compose, runtime>>

\* state.update_status("stopped")
StopMark(p) ==
  /\ pc[p] = "t_mark"
  /\ IF Exists(records, op[p].id)
     THEN /\ records' = UpdateStatus(records, op[p].id, "stopped")
          /\ Finish(p, "ok")
     ELSE /\ UNCHANGED records
          /\ Finish(p, "StateError")
  /\ UNCHANGED <<dirs, compose, runtime>>

\* labforge status LAB_ID
Status(p) ==
  \E partial \in Partials :
    Invoke(p, [NoOp EXCEPT !.name = "status", !.partial = partial], "q_load")

\* resolve_id, load, print the record
StatusLoad(p) ==
  /\ pc[p] = "q_load"
  /\ LET r == ResolveId(dirs, records, op[p].partial)
     IN  IF ~r.ok
         THEN Finish(p, "StateError")
         ELSE IF records[r.id].status # "running"
         THEN Finish(p, "ok")
         ELSE Goto(p, [op[p] EXCEPT !.id = r.id,
                                    !.status = records[r.id].status], "q_ps")
  /\ UNCHANGED <<dirs, records, compose, runtime>>

\* the DockerError of docker.ps() is not caught
StatusPsRaising(p) ==
  /\ pc[p] = "q_ps"
  /\ \E ok \in BOOLEAN :
       Finish(p, IF ok THEN "ok" ELSE "DockerError")
  /\ UNCHANGED <<dirs, records, compose, runtime>>

\* docker.ps(); on DockerError status prints a notice and returns normally
StatusPs(p) ==
  /\ pc[p] = "q_ps"
  /\ \E ok \in BOOLEAN :
       Finish(p, IF ok THEN "ok" ELSE "ok-without-ps")
  /\ UNCHANGED <<dirs, records, compose, runtime>>

\* labforge info LAB_ID
Info(p) ==
  \E partial \in Partials :
    Invoke(p, [NoOp EXCEPT !.name = "info", !.partial = partial], "i_load")

\* resolve_id, _print_access_info
InfoLoad(p) ==
  /\ pc[p] = "i_load"
  /\ LET r == ResolveId(dirs, records, op[p].partial)
     IN  IF ~r.ok
         THEN Finish(p, "StateError")
         ELSE IF ~AccessInfoOk(records[r.id])
         THEN Finish(p, FirstError(records[r.id].services, records[r.id].subnet))
         ELSE Finish(p, "ok")
  /\ UNCHANGED <<dirs, records, compose, runtime>>

Step(p) ==
  \/ BuildOf(p, TemplateNames)
  \/ BuildLoad(p)
  \/ BuildAllocate(p)
  \/ BuildMkdir(p)
  \/ BuildCreate(p)
  \/ BuildGenerate(p)
  \/ BuildUp(p)
  \/ BuildRunning(p)
  \/ BuildPost(p)
  \/ BuildError(p)
  \/ Destroy(p)
  \/ DestroyLoad(p)
  \/ DestroyDown(p)
  \/ DestroyMark(p)
  \/ DestroyDelete(p)
  \/ Start(p)
  \/ StartLoad(p)
  \/ StartDocker(p)
  \/ StartMark(p)
  \/ Stop(p)
  \/ StopLoad(p)
  \/ StopDocker(p)
  \/ StopMark(p)
  \/ Status(p)
  \/ StatusLoad(p)
  \/ StatusPs(p)
  \/ Info(p)
  \/ InfoLoad(p)

\* one operator: every operation runs to completion before the next begins
Next == Step(Operator)

Spec == Init /\ [][Next]_vars

\* the operator interrupts the running command (KeyboardInterrupt): it stops
\* where it is and nothing is rolled back
Interrupt(p) ==
  /\ pc[p] # "idle"
  /\ Finish(p, "Interrupted")
  /\ UNCHANGED <<dirs, records, compose, runtime>>

NextInt == Next \/ Interrupt(Operator)

SpecInt == Init /\ [][NextInt]_vars

\* several operators building and destroying labs from a valid template: the
\* steps of their commands interleave
ConcTemplates == {"malware-lab"}

StepConc(p) ==
  \/ BuildOf(p, ConcTemplates)
  \/ BuildLoad(p)
  \/ BuildAllocate(p)
  \/ BuildMkdir(p)
  \/ BuildCreate(p)
  \/ BuildGenerate(p)
  \/ BuildUp(p)
  \/ BuildRunning(p)
  \/ BuildPost(p)
  \/ BuildError(p)
  \/ Destroy(p)
  \/ DestroyLoad(p)
  \/ DestroyDown(p)
  \/ DestroyMark(p)
  \/ DestroyDelete(p)

NextConc == \E p \in Procs : StepConc(p)

SpecConc == Init /\ [][NextConc]_vars

\* one operator building labs from a template whose services declare
\* post_start commands
PostTemplates == {"post-start"}

StepPost(p) ==
  \/ BuildOf(p, PostTemplates)
  \/ BuildLoad(p)
  \/ BuildAllocate(p)
  \/ BuildMkdir(p)
  \/ BuildCreate(p)
  \/ BuildGenerate(p)
  \/ BuildUp(p)
  \/ BuildRunning(p)
  \/ BuildPost(p)
  \/ BuildExec(p)
  \/ BuildError(p)

NextPost == StepPost(Operator)

SpecPost == Init /\ [][NextPost]_vars

\* one operator on a host where other labs are running already: they hold
\* every block of the pool but the last MaxFree or fewer
MaxFree == 2

OtherLab(k) == <<"z", ToString(k)>>

CrowdedInit ==
  \E free \in 0..MaxFree :
    LET others == 1..(NumSubnets - 1 - free)
        ids == {OtherLab(k) : k \in others}
    IN  /\ dirs = ids
        /\ records = [id \in ids |->
                        [CreateRecord(id, "malware-lab", LoadConfig("malware-lab"),
                                      CHOOSE k \in others : OtherLab(k) = id)
                           EXCEPT !.status = "running"]]
        /\ compose = ids
        /\ runtime = ids
        /\ pc = [p \in Procs |-> "idle"]
        /\ op = [p \in Procs |-> NoOp]
        /\ result = [p \in Procs |-> "none"]
        /\ arg = NoCall
        /\ ret = NoCall

StepCrowded(p) ==
  \/ BuildOf(p, TemplateNames)
  \/ BuildLoad(p)
  \/ BuildAllocate(p)
  \/ BuildMkdir(p)
  \/ BuildCreate(p)
  \/ BuildGenerate(p)
  \/ BuildUp(p)
  \/ BuildRunning(p)
  \/ BuildPost(p)
  \/ BuildError(p)
  \/ Destroy(p)
  \/ DestroyLoad(p)
  \/ DestroyDown(p)
  \/ DestroyMark(p)
  \/ DestroyDelete(p)

NextCrowded == StepCrowded(Operator)

SpecCrowded == CrowdedInit /\ [][NextCrowded]_vars

TypeOK ==
  /\ dirs \subseteq LabIds
  /\ DOMAIN records \subseteq LabIds
  /\ compose \subseteq dirs
  /\ runtime \subseteq LabIds
  /\ \A id \in DOMAIN records :
       records[id].status \in Statuses /\ records[id].subnet \in 0..(NumSubnets - 1)
  /\ \A p \in Procs : result[p] \in Outcomes

\* --------------------------------------------- the allocator exercised alone
\* NetworkAllocator(used) for sets of used blocks: any choice among the
\* blocks 0..MaxBlock, together with none of the higher blocks, with all of
\* them, or with a network that lies outside the pool
MaxBlock == 4

ForeignBlock == NumSubnets

AllocUsedSets ==
  {low \cup high : low \in SUBSET (0..MaxBlock),
                   high \in {{}, (MaxBlock + 1)..(NumSubnets - 1), {ForeignBlock}}}

AllocInit ==
  /\ Idle
  /\ arg \in AllocUsedSets
  /\ ret = NoCall

\* subnet = allocator.allocate(): self.used.add(subnet) on success
AllocateCall ==
  /\ LET a == Allocate(arg)
     IN  /\ ret' = [fn |-> "allocate", ok |-> a.ok, subnet |-> a.subnet]
         /\ arg' = IF a.ok THEN arg \cup {a.subnet} ELSE arg
  /\ UNCHANGED <<dirs, records, compose, runtime, pc, op, result>>

\* the lab holding block k is destroyed: used_subnets() reports k no longer
AllocRelease ==
  /\ \E k \in arg \cap (0..MaxBlock) :
       /\ arg' = arg \ {k}
       /\ ret' = [fn |-> "release", ok |-> TRUE, subnet |-> k]
  /\ UNCHANGED <<dirs, records, compose, runtime, pc, op, result>>

NextAlloc == AllocateCall \/ AllocRelease

SpecAlloc == AllocInit /\ [][NextAlloc]_vars

\* ------------------------------------------- compute_ip exercised alone
\* offsets around the block, and the offsets at which the sum leaves the
\* IPv4 address space
MaxOffset == 300

IpSubnets == {1, 2, NumSubnets - 1}

IpOffsets ==
  (-MaxOffset..MaxOffset)
    \cup {MaxAddress - NetworkAddress(k) + d : k \in IpSubnets, d \in -1..1}
    \cup {2 ^ 30 + (2 ^ 30 - 1), -(2 ^ 30 + (2 ^ 30 - 1))}

IpInit ==
  /\ Idle
  /\ arg \in [subnet : IpSubnets, offset : IpOffsets]
  /\ ret = NoCall

\* NetworkAllocator.compute_ip(subnet, offset)
ComputeIpCall ==
  /\ LET r == ComputeIp(arg.subnet, arg.offset)
     IN  ret' = [fn |-> "compute_ip", ok |-> r.ok, ip |-> r.ip, err |-> r.err]
  /\ UNCHANGED <<dirs, records, compose, runtime, pc, op, result, arg>>

NextIp == ComputeIpCall

SpecIp == IpInit /\ [][NextIp]_vars

\* -------------------------------------------- resolve_id exercised alone
\* DATA_DIR holds at most MaxDirs directories, named by strings of up to
\* MaxNameLen characters; any of them may lack its state.yml
MaxNameLen == 2
MaxDirs == 2

DirNames == UNION {[1..n -> {"a", "b"}] : n \in 1..MaxNameLen}

ResolveInit ==
  /\ Idle
  /\ \E ds \in {d \in SUBSET DirNames : Cardinality(d) <= MaxDirs} :
       arg \in [dirs : {ds}, labs : SUBSET ds, partial : DirNames \cup {<< >>}]
  /\ ret = NoCall

\* LabState.resolve_id(partial)
ResolveIdCall ==
  /\ LET r == ResolveId(arg.dirs, [id \in arg.labs |-> "state.yml"], arg.partial)
     IN  ret' = [fn |-> "resolve_id", ok |-> r.ok, id |-> r.id, err |-> r.err]
  /\ UNCHANGED <<dirs, records, compose, runtime, pc, op, result, arg>>

NextResolve == ResolveIdCall

SpecResolve == ResolveInit /\ [][NextResolve]_vars

\* ---------------------------------------------- generate exercised alone
\* validated templates of up to MaxServices services.  A service is named
\* web or db, sits at an offset inside the /24, beyond it or beyond the
\* IPv4 address space, and may be of the windows-docker platform, declare
\* cap_add and declare network_mode
MaxServices == 2

GenService(name, offset, windows, cap, mode) ==
  LET keys == {"name", "image", "ip_offset"}
                \cup (IF windows THEN {"platform"} ELSE {})
                \cup (IF cap THEN {"cap_add"} ELSE {})
                \cup (IF mode THEN {"network_mode"} ELSE {})
  IN  [k \in keys |->
         CASE k = "name" -> name
           [] k = "image" -> "ubuntu:22.04"
           [] k = "ip_offset" -> offset
           [] k = "platform" -> "windows-docker"
           [] k = "cap_add" -> <<"SYS_ADMIN">>
           [] OTHER -> "host"]

GenServices ==
  {GenService(name, offset, windows, cap, mode) :
     name \in {"web", "db"}, offset \in {10, 300, MaxAddress},
     windows \in BOOLEAN, cap \in BOOLEAN, mode \in BOOLEAN}

GenConfigs ==
  {[name |-> "lab", services |-> ss] :
     ss \in UNION {[1..n -> GenServices] : n \in 1..MaxServices}}

GenInit ==
  /\ Idle
  /\ arg \in [config : {c \in GenConfigs : ValidateConfig(c)},
               subnet : {1, NumSubnets - 1},
               lab_id : {<<"a", "1">>}]
  /\ ret = NoCall

\* ComposeGenerator().generate(config, subnet, lab_id)
GenerateCall ==
  /\ LET g == Generate(arg.config, arg.subnet, arg.lab_id)
     IN  ret' = [fn |-> "generate", ok |-> g.ok, err |-> g.err, manifest |-> g.manifest]
  /\ UNCHANGED <<dirs, records, compose, runtime, pc, op, result, arg>>

NextGen == GenerateCall

SpecGen == GenInit /\ [][NextGen]_vars

\* --------------------------------------- validate_config exercised alone
\* templates with or without a name, with services absent, empty or a list
\* of up to MaxServices services, each holding any of the required keys
ValService(keys, name, offset) ==
  [k \in keys |->
     CASE k = "name" -> name
       [] k = "image" -> "ubuntu:22.04"
       [] OTHER -> offset]

ValServices ==
  {ValService(keys, name, offset) :
     keys \in SUBSET {"name", "image", "ip_offset"},
     name \in {"web", "db"}, offset \in {10, 20}}

ValConfigs ==
  LET lists == {<< >>} \cup UNION {[1..n -> ValServices] : n \in 1..MaxServices}
  IN  {[name |-> "lab", services |-> ss] : ss \in lists}
        \cup {[services |-> ss] : ss \in lists}
        \cup {[name |-> "lab"], [description |-> "no name, no services"]}

ValidateInit ==
  /\ Idle
  /\ arg \in [config : ValConfigs]
  /\ ret = NoCall

\* validate_config(config)
ValidateCall ==
  /\ LET ok == ValidateConfig(arg.config)
     IN  ret' = [fn |-> "validate", ok |-> ok,
                 err |-> IF ok THEN "none" ELSE "ConfigError"]
  /\ UNCHANGED <<dirs, records, compose, runtime, pc, op, result, arg>>

NextValidate == ValidateCall

SpecValidate == ValidateInit /\ [][NextValidate]_vars

\* -------------------------------------------- the state store exercised alone
\* create, update_status, load and delete are called in any order on the two
\* lab ids.  Here the records carry their timestamps: arg.clock is the time,
\* which advances with every write.
MaxClock == 3

StoreTemplates == {"malware-lab", "far-offset"}
StoreConfigs ==
  {LoadConfig("far-offset"),
   [name |-> "twins",
    services |-> <<GenService("web", 10, TRUE, FALSE, FALSE),
                   GenService("web", 300, FALSE, TRUE, FALSE)>>]}
StoreSubnets == {1, 2}

\* create: "created_at" and "updated_at" are the time of the call
Stamped(rec, now) ==
  [k \in DOMAIN rec \cup {"created_at", "updated_at"} |->
     IF k \in {"created_at", "updated_at"} THEN now ELSE rec[k]]

\* update_status: "updated_at" is the time of the call
Touched(recs, id, now) == [recs EXCEPT ![id].updated_at = now]

StoreInit ==
  /\ Idle
  /\ arg = [clock |-> 0]
  /\ ret = NoCall

\* LabState(lab_id).create(template, config, subnet)
StoreCreate ==
  \E id \in LabIds, template \in StoreTemplates, config \in StoreConfigs,
     subnet \in StoreSubnets :
    /\ arg.clock < MaxClock
    /\ dirs' = dirs \cup {id}
    /\ records' = WriteRecord(records, id,
                     Stamped(CreateRecord(id, template, config, subnet), arg.clock))
    /\ arg' = [clock |-> arg.clock + 1]
    /\ ret' = [fn |-> "create", id |-> id, template |-> template,
               config |-> config, subnet |-> subnet]
    /\ UNCHANGED <<compose, runtime, pc, op, result>>

\* LabState(lab_id).update_status(status)
StoreUpdateStatus ==
  \E id \in LabIds, status \in Statuses :
    /\ arg.clock < MaxClock
    /\ IF Exists(records, id)
       THEN /\ records' = Touched(UpdateStatus(records, id, status), id, arg.clock)
            /\ arg' = [clock |-> arg.clock + 1]
            /\ ret' = [fn |-> "update_status", id |-> id, ok |-> TRUE]
       ELSE /\ ret' = [fn |-> "update_status", id |-> id, ok |-> FALSE]
            /\ UNCHANGED <<records, arg>>
    /\ UNCHANGED <<dirs, compose, runtime, pc, op, result>>

\* LabState(lab_id).load()
StoreLoad ==
  \E id \in LabIds :
    /\ ret' = IF Exists(records, id)
              THEN [fn |-> "load", id |-> id, ok |-> TRUE, state |-> records[id]]
              ELSE [fn |-> "load", id |-> id, ok |-> FALSE]
    /\ UNCHANGED <<dirs, records, compose, runtime, pc, op, result, arg>>

\* LabState(lab_id).delete()
StoreDelete ==
  \E id \in LabIds :
    /\ IF id \in dirs
       THEN /\ dirs' = dirs \ {id}
            /\ records' = RemoveRecord(records, id)
       ELSE UNCHANGED <<dirs, records>>
    /\ ret' = [fn |-> "delete", id |-> id]
    /\ UNCHANGED <<compose, runtime, pc, op, result, arg>>

NextStore == StoreCreate \/ StoreUpdateStatus \/ StoreLoad \/ StoreDelete

SpecStore == StoreInit /\ [][NextStore]_vars

\* ------------------------------------ interpolate_variables exercised alone
\* A string of a template is written as a sequence of pieces: a literal
\* character or a placeholder naming a key.
MaxPieces == 2

Lit(c) == [lit |-> c]
Var(key) == [var |-> key]
InterpKeys == {<<"p">>, <<"q">>}
InterpPieces == {Lit(c) : c \in {"-", "p", "$", "}"}} \cup {Var(k) : k \in InterpKeys}
Placeholder(key) == <<"$", "{">> \o key \o <<"}">>

\* the characters of the string the pieces spell
RECURSIVE Render(_)
Render(pieces) ==
  IF pieces = << >> THEN << >>
  ELSE (IF "lit" \in DOMAIN Head(pieces) THEN <<Head(pieces).lit>>
        ELSE Placeholder(Head(pieces).var)) \o Render(Tail(pieces))

\* mappings of some of the keys to values
Mappings(keys, values) == UNION {[D -> values] : D \in SUBSET keys}

InterpSettings ==
  Mappings(InterpKeys, {YStr(<<"s">>), YStr(<<"t">>), YInt(7), YStr(Placeholder(<<"q">>))})
InterpEnvs ==
  {e \in Mappings(InterpKeys, {<<"e">>, << >>}) : <<"q">> \in DOMAIN e => e[<<"q">>] = <<"e">>}
InterpOverrides == Mappings({<<"p">>}, {YStr(<<"o">>)})

\* a template holding the string as its name, in a service's environment
\* and in a service's post_start list
InterpConfig(chars, settings) ==
  LET svc == YDict([name |-> YStr(<<"w">>), ip_offset |-> YInt(5),
                    environment |-> YDict([PW |-> YStr(chars)]),
                    post_start |-> YList(<<YStr(<<"x">>), YStr(chars)>>)])
  IN  IF DOMAIN settings = {}
      THEN YDict([name |-> YStr(chars), services |-> YList(<<svc>>)])
      ELSE YDict([name |-> YStr(chars), settings |-> YDict(settings),
                  services |-> YList(<<svc>>)])

InterpInit ==
  /\ Idle
  /\ arg \in [pieces : UNION {[1..n -> InterpPieces] : n \in 0..MaxPieces},
              settings : InterpSettings, env : InterpEnvs,
              overrides : InterpOverrides]
  /\ ret = NoCall

\* build: the overrides are merged, then the variables are interpolated
InterpolateCall ==
  /\ LET config == InterpConfig(Render(arg.pieces), arg.settings)
     IN  ret' = [fn |-> "interpolate",
                 config |-> InterpolateVariables(MergeOverrides(config, arg.overrides),
                                                 arg.env)]
  /\ UNCHANGED <<dirs, records, compose, runtime, pc, op, result, arg>>

NextInterp == InterpolateCall

SpecInterp == InterpInit /\ [][NextInterp]_vars

\* ------------------------------------------------------------------ claims

\* a step of p's own command (an interruption is not one)
Moved(p) == pc'[p] # pc[p] /\ result'[p] # "Interrupted"

Returned(p) == pc[p] # "idle" /\ pc'[p] = "idle" /\ result'[p] # "Interrupted"

DiskUnchanged == UNCHANGED <<dirs, records, compose>>

Exclusive(recs) ==
  \A a, b \in DOMAIN recs :
    (a # b /\ recs[a].status # "destroyed" /\ recs[b].status # "destroyed")
      => recs[a].subnet # recs[b].subnet

\* C1: in every state of one-at-a-time operation, no two lab records whose
\* status is not destroyed hold the same /24, and no record holds the
\* reserved first block.
C1_SubnetExclusive ==
  /\ Exclusive(records)
  /\ \A a \in DOMAIN records : records[a].subnet # 0

C1_Witness ==
  /\ DOMAIN records = LabIds
  /\ \A a \in LabIds : records[a].status \in {"running", "stopped", "error"}
  /\ \E a \in LabIds : records[a].subnet = 3

\* C2: there is no lock around allocate + create.  A build allocates a subnet
\* that is free in the snapshot it reads, and its create step writes that
\* subnet without looking at the disk again; so under interleaving two
\* records that are not destroyed can hold the same subnet (C2_Witness).
C2_StaleAllocationWritten ==
  [][\A p \in Procs :
       /\ (pc[p] = "b_alloc" /\ pc'[p] = "b_mkdir")
            => op'[p].subnet \notin UsedSubnets(records)
       /\ (pc[p] = "b_create" /\ pc'[p] = "b_gen")
            => /\ Exists(records', op[p].id)
               /\ records'[op[p].id].subnet = op[p].subnet
               /\ records'[op[p].id].status = "building"]_vars

C2_Witness ==
  /\ DOMAIN records = LabIds
  /\ \A a \in LabIds : records[a].status \in {"building", "running"}
  /\ \A a, b \in LabIds : records[a].subnet = records[b].subnet

AddressesInside(rec) ==
  \A i \in DOMAIN rec.services :
    LET c == ComputeIp(rec.subnet, rec.services[i].ip_offset)
    IN  /\ c.ok
        /\ c.ip = rec.subnet * 256 + rec.services[i].ip_offset
        /\ rec.services[i].ip_offset \in 0..255

\* C3: a build whose manifest application succeeds returns with the lab's
\* record running, on the /24 it allocated, which no other record that is not
\* destroyed holds and none held when it was allocated; every service's
\* address is the network address plus its ip_offset, inside the subnet; the
\* record is building until the build marks it running.
C3_BuildSucceeds ==
  [][\A p \in Procs :
       /\ (pc[p] = "b_alloc" /\ pc'[p] = "b_mkdir")
            => /\ op'[p].subnet \in 1..255
               /\ op'[p].subnet \notin UsedSubnets(records)
       /\ (pc[p] = "b_up" /\ pc'[p] = "b_run")
            => /\ Exists(records, op[p].id)
               /\ records[op[p].id].status = "building"
       /\ (pc[p] = "b_run" /\ Moved(p))
            => /\ pc'[p] = "b_post"
               /\ records[op[p].id].status = "building"
               /\ records'[op[p].id].status = "running"
       /\ (pc[p] = "b_post" /\ Moved(p))
            => /\ pc'[p] = "idle" /\ result'[p] = "ok"
               /\ Exists(records', op[p].id)
               /\ records'[op[p].id].status = "running"
               /\ records'[op[p].id].subnet = op[p].subnet
               /\ AddressesInside(records'[op[p].id])
               /\ \A b \in DOMAIN records' \ {op[p].id} :
                    records'[b].status # "destroyed"
                      => records'[b].subnet # op[p].subnet]_vars

C3_Witness ==
  /\ pc[Operator] = "idle"
  /\ op[Operator].name = "build"
  /\ result[Operator] = "ok"
  /\ \E a \in DOMAIN records :
       /\ records[a].status = "running"
       /\ records[a].subnet = 2
       /\ records[a].services[1].ip_offset = 10

\* C4: when manifest generation or application fails after the record was
\* created, the build's handler leaves the record on disk with status error,
\* its subnet still counted as used, and the failure is what the caller gets.
C4_FailedBuildRetained ==
  [][\A p \in Procs :
       /\ (pc[p] \in {"b_gen", "b_up"} /\ Moved(p))
            => /\ pc'[p] \in {"b_up", "b_run", "b_err"}
               /\ (pc'[p] = "b_err") = (op'[p].err \in {"NetworkError", "DockerError"})
       /\ (pc[p] = "b_err" /\ Moved(p))
            => /\ pc'[p] = "idle"
               /\ result'[p] = op[p].err
               /\ result'[p] \in {"NetworkError", "DockerError"}
               /\ op[p].id \in dirs'
               /\ Exists(records', op[p].id)
               /\ records'[op[p].id].status = "error"
               /\ records'[op[p].id].subnet = op[p].subnet
               /\ op[p].subnet \in UsedSubnets(records')]_vars

C4_Witness ==
  /\ pc[Operator] = "idle"
  /\ op[Operator].name = "build"
  /\ result[Operator] = "NetworkError"
  /\ \E a \in DOMAIN records :
       records[a].status = "error" /\ records[a].template = "far-offset"

\* C5: start marks a lab running only when the status it loaded is stopped or
\* error and the runtime start succeeded; from every other status it returns
\* as a no-op without reaching the runtime call and changes nothing.
C5_StartOnlyFromStoppedOrError ==
  [][\A p \in Procs :
       LET r == ResolveId(dirs, records, op[p].partial)
       IN  /\ (pc[p] = "s_load" /\ Moved(p) /\ r.ok
                 /\ records[r.id].status \notin {"stopped", "error"})
                => /\ pc'[p] = "idle" /\ result'[p] = "noop"
                   /\ UNCHANGED <<dirs, records, compose, runtime>>
           /\ (pc[p] = "s_load" /\ pc'[p] = "s_docker")
                => /\ r.ok /\ op'[p].id = r.id
                   /\ records[r.id].status \in {"stopped", "error"}
           /\ (pc[p] = "s_docker" /\ Moved(p))
                => /\ UNCHANGED <<dirs, records, compose>>
                   /\ pc'[p] = "s_mark" \/ result'[p] = "DockerError"
           /\ (pc[p] \in {"s_load", "s_docker", "s_mark"} /\ records' # records)
                => /\ pc[p] = "s_mark"
                   /\ op[p].status \in {"stopped", "error"}
                   /\ records' = [records EXCEPT ![op[p].id].status = "running"]]_vars

C5_Witness ==
  /\ pc[Operator] = "idle"
  /\ op[Operator].name = "start"
  /\ result[Operator] = "noop"
  /\ DOMAIN records # {}
  /\ \A a \in DOMAIN records : records[a].status = "building"

\* C6: stop marks a lab stopped only when the status it loaded is running and
\* the runtime stop succeeded; from every other status it returns as a no-op
\* without reaching the runtime call and changes nothing.
C6_StopOnlyFromRunning ==
  [][\A p \in Procs :
       LET r == ResolveId(dirs, records, op[p].partial)
       IN  /\ (pc[p] = "t_load" /\ Moved(p) /\ r.ok
                 /\ records[r.id].status # "running")
                => /\ pc'[p] = "idle" /\ result'[p] = "noop"
                   /\ UNCHANGED <<dirs, records, compose, runtime>>
           /\ (pc[p] = "t_load" /\ pc'[p] = "t_docker")
                => /\ r.ok /\ op'[p].id = r.id
                   /\ records[r.id].status = "running"
           /\ (pc[p] = "t_docker" /\ Moved(p))
                => /\ UNCHANGED <<dirs, records, compose>>
                   /\ pc'[p] = "t_mark" \/ result'[p] = "DockerError"
           /\ (pc[p] \in {"t_load", "t_docker", "t_mark"} /\ records' # records)
                => /\ pc[p] = "t_mark"
                   /\ op[p].status = "running"
                   /\ records' = [records EXCEPT ![op[p].id].status = "stopped"]]_vars

C6_Witness ==
  /\ pc[Operator] = "idle"
  /\ op[Operator].name = "stop"
  /\ result[Operator] = "noop"
  /\ DOMAIN records # {}
  /\ \A a \in DOMAIN records : records[a].status = "destroyed"

\* C7 as stated: every destroy that got past the already-destroyed check
\* returns with the record gone and the directory deleted, with or without
\* force, whether or not the teardown succeeded.
C7_DestroyAlwaysDeletes ==
  [][\A p \in Procs :
       (pc[p] \in {"d_down", "d_mark", "d_del"} /\ Returned(p))
         => /\ op[p].id \notin dirs'
            /\ ~Exists(records', op[p].id)]_vars

\* C7 amended: a destroy that got past the already-destroyed check marks the
\* record destroyed and then deletes the directory whenever force is given or
\* the teardown does not fail; without force a failed teardown is raised and
\* record and directory stay as they were.
C7_DestroyDeletesUnlessTeardownFails ==
  [][\A p \in Procs :
       /\ (pc[p] = "d_down" /\ Moved(p))
            => \/ pc'[p] = "d_mark" /\ DiskUnchanged
               \/ /\ pc'[p] = "idle" /\ result'[p] = "DockerError"
                  /\ ~op[p].force /\ op[p].id \in compose
                  /\ UNCHANGED <<dirs, records, compose, runtime>>
       /\ (pc[p] = "d_mark" /\ Moved(p))
            => /\ pc'[p] = "d_del"
               /\ records'[op[p].id].status = "destroyed"
       /\ (pc[p] = "d_del" /\ Moved(p))
            => /\ records[op[p].id].status = "destroyed"
               /\ pc'[p] = "idle" /\ result'[p] = "ok"
               /\ op[p].id \notin dirs'
               /\ op[p].id \notin compose'
               /\ ~Exists(records', op[p].id)]_vars

C7_Witness ==
  /\ pc[Operator] = "idle"
  /\ op[Operator].name = "destroy"
  /\ result[Operator] = "ok"
  /\ \E a \in runtime : a \notin dirs

\* C8 as stated: destroy without force on a lab that is already destroyed or
\* that does not exist returns as a no-op, raising nothing and changing
\* nothing on disk.
C8_DestroyMissingIsNoop ==
  [][\A p \in Procs :
       LET r == ResolveId(dirs, records, op[p].partial)
       IN  (/\ pc[p] = "d_load" /\ Moved(p) /\ ~op[p].force
            /\ \/ ResolveMatches(dirs, records, op[p].partial) = {}
               \/ r.ok /\ records[r.id].status = "destroyed")
             => /\ pc'[p] = "idle" /\ result'[p] = "noop"
                /\ DiskUnchanged]_vars

\* C8 amended: destroy without force on a lab whose record has status
\* destroyed returns as a no-op, raising nothing and changing nothing on disk;
\* on a lab that has no record it fails with StateError (lab not found), also
\* changing nothing on disk.
C8_DestroyDestroyedIsNoop ==
  [][\A p \in Procs :
       LET r == ResolveId(dirs, records, op[p].partial)
       IN  /\ (/\ pc[p] = "d_load" /\ Moved(p) /\ ~op[p].force
               /\ r.ok /\ records[r.id].status = "destroyed")
                => /\ pc'[p] = "idle" /\ result'[p] = "noop"
                   /\ UNCHANGED <<dirs, records, compose, runtime>>
           /\ (/\ pc[p] = "d_load" /\ Moved(p) /\ ~op[p].force
               /\ ResolveMatches(dirs, records, op[p].partial) = {})
                => /\ pc'[p] = "idle" /\ result'[p] = "StateError"
                   /\ UNCHANGED <<dirs, records, compose, runtime>>]_vars

C8_Witness ==
  /\ pc[Operator] = "idle"
  /\ op[Operator].name = "destroy"
  /\ result[Operator] = "noop"
  /\ \E a \in DOMAIN records : records[a].status = "destroyed"

\* C9 as stated: destroy with force on a lab id, also one that is already
\* destroyed or has no record, returns with no directory left for that id.
C9_ForceLeavesNoDirectory ==
  [][\A p \in Procs :
       (/\ pc[p] \in {"d_load", "d_down", "d_mark", "d_del"} /\ Returned(p)
        /\ op[p].force /\ op[p].partial \in LabIds)
         => op[p].partial \notin dirs']_vars

\* C9 amended: destroy with force proceeds on every lab that has a record,
\* also one already marked destroyed; a failed teardown is only a warning and
\* the directory is still deleted, so no directory for that id is left when
\* destroy returns.  On an id that has no record it fails with StateError
\* (lab not found) and removes nothing, so a leftover directory without a
\* record stays.
C9_ForceProceedsOnRecords ==
  [][\A p \in Procs :
       LET r == ResolveId(dirs, records, op[p].partial)
       IN  /\ (pc[p] = "d_load" /\ Moved(p) /\ op[p].force /\ r.ok)
                => pc'[p] = "d_down" /\ op'[p].id = r.id
           /\ (pc[p] = "d_load" /\ Moved(p) /\ op[p].force
                 /\ ResolveMatches(dirs, records, op[p].partial) = {})
                => /\ pc'[p] = "idle" /\ result'[p] = "StateError"
                   /\ UNCHANGED <<dirs, records, compose, runtime>>
           /\ (pc[p] = "d_down" /\ Moved(p) /\ op[p].force)
                => pc'[p] = "d_mark"
           /\ (pc[p] = "d_mark" /\ Moved(p) /\ op[p].force)
                => pc'[p] = "d_del"
           /\ (pc[p] = "d_del" /\ Moved(p) /\ op[p].force)
                => /\ pc'[p] = "idle" /\ result'[p] = "ok"
                   /\ op[p].id \notin dirs']_vars

C9_Witness ==
  /\ pc[Operator] = "d_del"
  /\ op[Operator].force
  /\ op[Operator].status = "destroyed"
  /\ op[Operator].err = "DockerError"

\* C10: between operations run one at a time no record with status destroyed
\* is on disk and no directory is left without a record; a destroyed lab has
\* no record, and start, stop, status, info and destroy on an id without a
\* record fail with StateError (lab not found).
C10_DestroyedHasNoRecord ==
  /\ [](pc[Operator] = "idle"
          => /\ \A a \in DOMAIN records : records[a].status # "destroyed"
             /\ dirs = DOMAIN records)
  /\ [][\A p \in Procs :
          /\ (pc[p] = "d_del" /\ Moved(p))
               => ~Exists(records', op[p].id)
          /\ (/\ pc[p] \in {"s_load", "t_load", "d_load", "q_load", "i_load"}
              /\ Moved(p)
              /\ op[p].partial \in LabIds \ DOMAIN records)
               => /\ pc'[p] = "idle" /\ result'[p] = "StateError"
                  /\ DiskUnchanged]_vars

C10_Witness ==
  /\ pc[Operator] = "idle"
  /\ op[Operator].name = "status"
  /\ result[Operator] = "StateError"
  /\ records = << >>
  /\ runtime # {}

\* the allocatable blocks of the pool: every /24 of the /16 but the first
Allocatable == {k \in 0..(NumSubnets - 1) : k # 0}

\* C11: whenever `used` does not cover the pool, allocate returns the
\* lowest-addressed /24 of 172.30.0.0/16 that is neither the reserved first
\* block nor in `used`.  So allocations that follow one another with no
\* release in between return ascending blocks, 172.30.1.0/24, 172.30.2.0/24,
\* ... when they start from an empty `used`, and an allocation that follows
\* the release of an allocatable block returns that block or a lower one.
C11_AllocateLowestFree ==
  [][ret'.fn = "allocate" =>
       /\ (Allocatable \ arg # {}) => ret'.ok
       /\ ret'.ok =>
            /\ ret'.subnet \in Allocatable \ arg
            /\ \A k \in Allocatable \ arg : ret'.subnet <= k
            /\ \A m \in 0..(NumSubnets - 2) : arg = 1..m => ret'.subnet = m + 1
            /\ (ret.fn = "allocate" /\ ret.ok) => ret'.subnet > ret.subnet
            /\ (ret.fn = "release" /\ ret.subnet \in Allocatable)
                 => ret'.subnet <= ret.subnet]_vars

\* 172.30.2.0/24 was handed out while lower and higher blocks are in use
C11_Witness ==
  /\ ret.fn = "allocate" /\ ret.ok
  /\ ret.subnet = 2 /\ arg = 1..4

\* C12 as stated: the pool has 254 allocatable blocks, so allocate succeeds
\* whenever fewer than 254 allocatable blocks are in `used` and fails once
\* 254 of them are.
C12_PoolOf254 ==
  [][ret'.fn = "allocate" =>
       (ret'.ok <=> Cardinality(arg \cap Allocatable) < 254)]_vars

\* C12: the pool has 255 allocatable /24 blocks, the 256 blocks of the /16
\* less the reserved first one; allocate fails exactly when all 255 are in
\* `used` and succeeds whenever fewer are.
C12_PoolOf255 ==
  [][/\ Cardinality(Allocatable) = 255
     /\ ret'.fn = "allocate" =>
          (ret'.ok <=> Cardinality(arg \cap Allocatable) < 255)]_vars

\* allocate failed on the exhausted pool
C12_Witness ==
  /\ ret.fn = "allocate" /\ ~ret.ok
  /\ Cardinality(arg \cap Allocatable) = 255

\* C13: compute_ip on a /24 returns network address + offset when that
\* address lies inside the subnet, which is so for every offset in 0..254,
\* and fails with NetworkError when it lies outside, which is so for offset
\* 256, for every negative offset and for every larger one; it never
\* returns an address outside the subnet.
C13_ComputeAddress ==
  ret.fn = "compute_ip" =>
    /\ (arg.offset \in 0..(SubnetSize - 1)) =>
          ret.ok /\ ret.ip = NetworkAddress(arg.subnet) + arg.offset
    /\ (arg.offset \notin 0..(SubnetSize - 1)) =>
          ~ret.ok /\ ret.err = "NetworkError"
    /\ arg.offset \in 0..254 => ret.ok
    /\ (arg.offset = 256 \/ arg.offset < 0) => ret.err = "NetworkError"
    /\ ret.ok => InSubnet(ret.ip, arg.subnet)

\* the subnets of the records of labs that are building, running, stopped
\* or in error
LiveSubnets(recs) ==
  {recs[id].subnet :
     id \in {x \in DOMAIN recs :
               recs[x].status \in {"building", "running", "stopped", "error"}}}

\* C14: used_subnets() returns exactly the subnets of the records on disk
\* whose status is not destroyed.  So a build is given the lowest block that
\* no building, running, stopped or failed lab holds, and once destroy has
\* marked a lab destroyed only the subnets of the other labs are reported.
C14_UsedSubnetsAreLive ==
  /\ [](UsedSubnets(records) = LiveSubnets(records))
  /\ [][\A p \in Procs :
          /\ (pc[p] = "b_alloc" /\ Moved(p)) =>
                /\ pc'[p] = "b_mkdir"
                /\ op'[p].subnet = SetMin(Allocatable \ LiveSubnets(records))
          /\ (pc[p] = "d_mark" /\ Moved(p) /\ Exists(records, op[p].id)) =>
                LiveSubnets(records') =
                  LiveSubnets([x \in DOMAIN records \ {op[p].id} |-> records[x]])]_vars

\* one lab failed and keeps 172.30.2.0/24; the other was marked destroyed
\* while it held 172.30.1.0/24, and a later build has just been given that
\* block
C14_Witness ==
  /\ pc[Operator] = "b_mkdir" /\ op[Operator].subnet = 1
  /\ \E a, b \in DOMAIN records :
       /\ records[a].status = "destroyed" /\ records[a].subnet = 1
       /\ records[b].status = "error" /\ records[b].subnet = 2

\* some initial part of the id is the partial id
StartsWith(id, partial) == \E n \in 0..Len(id) : SubSeq(id, 1, n) = partial

\* C15: resolve_id returns the one lab id that starts with `partial` when
\* exactly one lab directory (a directory holding a record) matches, fails
\* as ambiguous when more than one matches, also when `partial` is the full
\* id of one of them, and fails as not found when none matches; an id it
\* returns is that of a directory and a record on disk.
C15_ResolveUniquePrefix ==
  ret.fn = "resolve_id" =>
    LET matching == {id \in arg.labs : StartsWith(id, arg.partial)}
    IN  /\ Cardinality(matching) = 1 => ret.ok /\ ret.id \in matching
        /\ Cardinality(matching) > 1 => ~ret.ok /\ ret.err = "AmbiguousId"
        /\ matching = {} => ~ret.ok /\ ret.err = "LabNotFound"
        /\ ret.ok => ret.id \in arg.dirs \cap arg.labs

\* the partial id is the full id of one lab and a prefix of another's
C15_Witness ==
  /\ ret.fn = "resolve_id" /\ ret.err = "AmbiguousId"
  /\ arg.partial \in arg.labs

\* p is inside status or info, or is invoking one of them
Reading(p) ==
  \/ pc[p] \in {"q_load", "q_ps", "i_load"}
  \/ pc[p] = "idle" /\ pc'[p] \in {"q_load", "i_load"}

\* C16: no step of status or info changes a lab record, a lab directory, a
\* manifest or the runtime, whatever the status of the lab; and once status
\* has reached the query of the live runtime it returns normally whether
\* the query succeeds or fails.
C16_StatusInfoReadOnly ==
  [][\A p \in Procs :
       (Reading(p) /\ Moved(p)) =>
         /\ UNCHANGED <<dirs, records, compose, runtime>>
         /\ pc[p] = "q_ps" =>
              pc'[p] = "idle" /\ result'[p] \in {"ok", "ok-without-ps"}]_vars

\* status returned normally although the runtime query failed, and the lab
\* is on record as running as before
C16_Witness ==
  /\ pc[Operator] = "idle" /\ op[Operator].name = "status"
  /\ result[Operator] = "ok-without-ps"
  /\ \E id \in DOMAIN records : records[id].status = "running"

\* the template service a manifest entry is built from: the last one
\* declared under the entry's name
SourceOf(services, name) ==
  services[CHOOSE i \in DOMAIN services :
             /\ services[i].name = name
             /\ \A j \in DOMAIN services : services[j].name = name => j <= i]

\* C17: in the manifest, the entry of a service that declares network_mode
\* has that mode and no networks attachment; the entry of a service that
\* does not has exactly one attachment, to the lab's network, at
\* compute_ip(subnet, ip_offset); and the entry of a windows-docker service
\* has cap_add equal to NET_ADMIN alone, whatever cap_add it declares.
C17_NetworkModeAndCapAdd ==
  (ret.fn = "generate" /\ ret.ok) =>
    \A j \in DOMAIN ret.manifest.services :
      LET svc == SourceOf(arg.config.services, ret.manifest.services[j].key)
          def == ret.manifest.services[j].value
          net == NetworkName(arg.lab_id)
      IN  /\ "network_mode" \in DOMAIN svc =>
                /\ "networks" \notin DOMAIN def
                /\ def.network_mode = svc.network_mode
          /\ "network_mode" \notin DOMAIN svc =>
                /\ "network_mode" \notin DOMAIN def
                /\ "networks" \in DOMAIN def
                /\ DOMAIN def.networks = {net}
                /\ def.networks[net] =
                     [ipv4_address |-> NetworkAddress(arg.subnet) + svc.ip_offset]
                /\ InSubnet(def.networks[net].ipv4_address, arg.subnet)
          /\ Windows(svc) => def.cap_add = <<"NET_ADMIN">>
          /\ (~Windows(svc) /\ "cap_add" \in DOMAIN svc) => def.cap_add = svc.cap_add
          /\ (~Windows(svc) /\ "cap_add" \notin DOMAIN svc) => "cap_add" \notin DOMAIN def

\* a manifest was generated for a windows-docker service that declares both
\* cap_add and network_mode, next to a plain service
C17_Witness ==
  /\ ret.fn = "generate" /\ ret.ok
  /\ Len(ret.manifest.services) = 2
  /\ \E i \in DOMAIN arg.config.services :
       LET svc == arg.config.services[i]
       IN  Windows(svc) /\ "cap_add" \in DOMAIN svc /\ "network_mode" \in DOMAIN svc
  /\ \E i \in DOMAIN arg.config.services :
       LET svc == arg.config.services[i]
       IN  ~Windows(svc) /\ "network_mode" \notin DOMAIN svc

\* C18: the manifest has one service entry per service of the validated
\* template, in declaration order: as many entries as the template has
\* services, duplicate names included, the i-th entry being that of the
\* i-th service.
C18_OneEntryPerService ==
  (ret.fn = "generate" /\ ret.ok) =>
    /\ Len(ret.manifest.services) = Len(arg.config.services)
    /\ \A i \in DOMAIN arg.config.services :
         /\ i \in DOMAIN ret.manifest.services
         /\ ret.manifest.services[i].key = arg.config.services[i].name
         /\ ret.manifest.services[i].value =
              BuildService(arg.config.services[i], arg.subnet, NetworkName(arg.lab_id))

\* C19 as stated: generate returns a manifest for every validated template,
\* every allocated subnet and every lab id.
C19_GenerateTotal == ret.fn = "generate" => ret.ok

\* C19: generate returns a manifest exactly when the ip_offset of every
\* service, of those that declare network_mode as well, lies inside the
\* subnet; otherwise it fails with the error compute_ip raises for the
\* first such service and returns no manifest.
C19_GenerateTotalOnValidOffsets ==
  ret.fn = "generate" =>
    LET services == arg.config.services
        outside == {i \in DOMAIN services :
                      services[i].ip_offset \notin 0..(SubnetSize - 1)}
    IN  /\ ret.ok <=> outside = {}
        /\ ret.ok => Len(ret.manifest.services) >= 1
        /\ ~ret.ok => /\ ret.manifest = << >>
                      /\ ret.err = ComputeIp(arg.subnet,
                                             services[SetMin(outside)].ip_offset).err
                      /\ ret.err \in {"NetworkError", "ValueError"}

\* generate failed on a template whose only service outside the subnet
\* declares network_mode
C19_Witness ==
  /\ ret.fn = "generate" /\ ~ret.ok /\ ret.err = "NetworkError"
  /\ \A i \in DOMAIN arg.config.services :
       arg.config.services[i].ip_offset \notin 0..(SubnetSize - 1)
         => "network_mode" \in DOMAIN arg.config.services[i]

\* C20: validate_config fails, with ConfigError, exactly when name is
\* absent, services is absent or empty, or some service lacks name, image
\* or ip_offset; it accepts every other template, those with duplicate
\* service names or duplicate ip_offsets among them.
C20_ValidateStructuralOnly ==
  ret.fn = "validate" =>
    LET config == arg.config
        lacking == IF "services" \in DOMAIN config
                   THEN {i \in 1..Len(config.services) :
                           ~({"name", "image", "ip_offset"} \subseteq
                               DOMAIN config.services[i])}
                   ELSE {}
        invalid == \/ "name" \notin DOMAIN config
                   \/ "services" \notin DOMAIN config
                   \/ Len(config.services) = 0
                   \/ lacking # {}
    IN  /\ ret.ok <=> ~invalid
        /\ ret.err = (IF invalid THEN "ConfigError" ELSE "none")

\* a template whose two services share name and ip_offset was accepted
C20_Witness ==
  /\ ret.fn = "validate" /\ ret.ok
  /\ Len(arg.config.services) = 2
  /\ arg.config.services[1].name = arg.config.services[2].name
  /\ arg.config.services[1].ip_offset = arg.config.services[2].ip_offset

\* what a placeholder of the key stands for: the override, else the template's
\* setting, else the environment's value, else the placeholder itself
Resolved(key) ==
  IF key \in DOMAIN arg.overrides THEN arg.overrides[key].v
  ELSE IF key \in DOMAIN arg.settings
       THEN (IF arg.settings[key].t = "int" THEN <<Digits[arg.settings[key].v + 1]>>
             ELSE arg.settings[key].v)
  ELSE IF key \in DOMAIN arg.env THEN arg.env[key]
  ELSE Placeholder(key)

RECURSIVE Substituted(_)
Substituted(pieces) ==
  IF pieces = << >> THEN << >>
  ELSE (IF "lit" \in DOMAIN Head(pieces) THEN <<Head(pieces).lit>>
        ELSE Resolved(Head(pieces).var)) \o Substituted(Tail(pieces))

C22_LoadAfterCreate ==
  [][(ret.fn = "create" /\ ret'.fn = "load" /\ ret'.id = ret.id) =>
       /\ ret'.ok
       /\ ret'.state.subnet = ret.subnet
       /\ ret'.state.template = ret.template
       /\ ret'.state.status = "building"
       /\ Len(ret'.state.services) = Len(ret.config.services)
       /\ \A i \in DOMAIN ret.config.services :
            /\ ret'.state.services[i].name = ret.config.services[i].name
            /\ ret'.state.services[i].image = ret.config.services[i].image
            /\ ret'.state.services[i].ip_offset = ret.config.services[i].ip_offset]_vars

\* the record of a lab with two services of one name and different offsets,
\* loaded right after the only write so far
C22_Witness ==
  /\ ret.fn = "load" /\ ret.ok
  /\ arg.clock = 1
  /\ ret.state.status = "building"
  /\ Len(ret.state.services) = 2
  /\ ret.state.services[1].name = ret.state.services[2].name
  /\ ret.state.services[1].ip_offset = 10
  /\ ret.state.services[2].ip_offset = 300

\* C24: update_status changes nothing but the status and updated_at of the
\* record it addresses, and leaves every other record alone; so only a
\* create of a lab id gives its record another subnet.
C24_UpdateStatusFrame ==
  [][/\ (ret'.fn = "update_status" /\ ret'.ok) =>
          /\ dirs' = dirs
          /\ DOMAIN records' = DOMAIN records
          /\ \A x \in DOMAIN records \ {ret'.id} : records'[x] = records[x]
          /\ DOMAIN records'[ret'.id] = DOMAIN records[ret'.id]
          /\ \A k \in DOMAIN records[ret'.id] \ {"status", "updated_at"} :
               records'[ret'.id][k] = records[ret'.id][k]
     /\ \A x \in DOMAIN records \cap DOMAIN records' :
          records'[x].subnet # records[x].subnet => (ret'.fn = "create" /\ ret'.id = x)
    ]_vars

\* a stopped lab whose record kept the subnet and the creation time it got,
\* next to another lab's record
C24_Witness ==
  /\ ret.fn = "update_status" /\ ret.ok
  /\ records[ret.id].status = "stopped"
  /\ records[ret.id].created_at < records[ret.id].updated_at
  /\ DOMAIN records = LabIds

\* C23: build runs the post_start commands only once the record is marked
\* running, in the order in which the services and their commands are
\* declared; a command that fails does not change the record, the remaining
\* commands are still run, and build ends successfully after the last one.
C23_PostStartTolerant ==
  [][\A p \in Procs :
       (pc[p] = "b_exec" /\ (pc'[p] # pc[p] \/ op'[p] # op[p])) =>
         LET cmds == PostStartCommands(LoadConfig(op[p].template).services)
         IN  /\ Exists(records, op[p].id) /\ records[op[p].id].status = "running"
             /\ records' = records
             /\ pc'[p] = "b_exec" =>
                  /\ Len(op'[p].log) = Len(op[p].log) + 1
                  /\ op'[p].log[Len(op'[p].log)].cmd = cmds[Len(op'[p].log)].cmd
                  /\ op'[p].log[Len(op'[p].log)].service = cmds[Len(op'[p].log)].service
             /\ pc'[p] # "b_exec" =>
                  /\ result'[p] = "ok"
                  /\ Len(op[p].log) + 1 = Len(cmds)]_vars

\* C25: a start, a stop or a destroy without force whose runtime call fails
\* ends there with the runtime's error, and the lab's directory, record and
\* manifest are as they were before the call; a call that does not fail is
\* followed by the status update.
C25_RuntimeFailurePropagates ==
  [][\A p \in Procs :
       /\ (pc[p] \in {"s_docker", "t_docker"} /\ Moved(p)) =>
            /\ DiskUnchanged
            /\ \/ pc'[p] = (IF pc[p] = "s_docker" THEN "s_mark" ELSE "t_mark")
               \/ /\ pc'[p] = "idle"
                  /\ result'[p] = "DockerError"
                  /\ Exists(records', op[p].id)
                  /\ records'[op[p].id].status = op[p].status
                  /\ op[p].id \in dirs'
       /\ (pc[p] = "d_down" /\ ~op[p].force /\ Moved(p)) =>
            /\ DiskUnchanged
            /\ \/ pc'[p] = "d_mark" /\ op'[p].err = "none"
               \/ /\ pc'[p] = "idle"
                  /\ result'[p] = "DockerError"
                  /\ Exists(records', op[p].id)
                  /\ records'[op[p].id].status = op[p].status
                  /\ op[p].id \in dirs']_vars

\* a stop that ended with the runtime's error, the only lab still running
C25_Witness ==
  /\ op[Operator].name = "stop"
  /\ result[Operator] = "DockerError"
  /\ Cardinality(DOMAIN records) = 1
  /\ \A a \in DOMAIN records : records[a].status = "running" /\ a \in dirs

\* C26: a build that ends because its template does not exist, because the
\* template is not valid or because no subnet is free has changed no
\* directory, record or manifest, has made no subnet used and has not
\* called the runtime; and a build in one of these three cases does end so.
C26_EarlyFailureChangesNothing ==
  [][\A p \in Procs :
       /\ (pc[p] \in {"b_load", "b_alloc"} /\ Moved(p)) =>
            /\ DiskUnchanged
            /\ runtime' = runtime
            /\ UsedSubnets(records') = UsedSubnets(records)
            /\ pc'[p] = "idle" => result'[p] \in {"ConfigError", "NetworkError"}
       /\ (/\ pc[p] = "b_load" /\ Moved(p)
           /\ \/ ~TemplateExists(op[p].template)
              \/ "image" \notin DOMAIN LoadConfig(op[p].template).services[1])
            => pc'[p] = "idle" /\ result'[p] = "ConfigError"
       /\ (/\ pc[p] = "b_alloc" /\ Moved(p)
           /\ 1..(NumSubnets - 1) \subseteq UsedSubnets(records))
            => pc'[p] = "idle" /\ result'[p] = "NetworkError"]_vars

\* a build refused for want of a free subnet on a host whose 255 blocks are
\* all held by other labs: no directory but theirs exists
C26_Witness ==
  /\ op[Operator].name = "build"
  /\ result[Operator] = "NetworkError"
  /\ Cardinality(UsedSubnets(records)) = NumSubnets - 1
  /\ dirs \cap LabIds = {}
  /\ DOMAIN records = dirs

\* C27: a destroy may run between the create and the manifest of a build of
\* the same lab.  It finds no manifest, so it calls no teardown, and deletes
\* record and directory; the build then still writes its manifest, making
\* the directory again, and applies it; its update of the status then fails
\* with StateError and nothing is undone: the lab's resources stay applied
\* and no record holds its subnet (C27_Witness).
C27_DestroyDuringBuild ==
  [][\A p \in Procs :
       /\ (pc[p] = "d_down" /\ Moved(p) /\ op[p].id \notin compose) =>
            pc'[p] = "d_mark" /\ runtime' = runtime
       /\ (pc[p] = "b_gen" /\ Moved(p) /\ ~Exists(records, op[p].id)) =>
            /\ pc'[p] = "b_up"
            /\ op[p].id \in dirs' /\ op[p].id \in compose'
            /\ records' = records
       /\ (pc[p] = "b_run" /\ Moved(p) /\ ~Exists(records, op[p].id)) =>
            /\ pc'[p] = "idle" /\ result'[p] = "StateError"
            /\ runtime' = runtime
            /\ DiskUnchanged
       /\ (pc[p] = "b_up" /\ pc'[p] = "b_run" /\ ~Exists(records, op[p].id)) =>
            /\ op[p].id \in runtime'
            /\ DiskUnchanged]_vars

\* the destroy has returned, the build has failed with StateError, and the
\* lab is applied in the runtime with its manifest in its directory while
\* the store holds no record at all, so that no subnet is reported as used
C27_Witness ==
  /\ \E p, q \in Procs :
       /\ op[p].name = "build" /\ pc[p] = "idle" /\ result[p] = "StateError"
       /\ op[q].name = "destroy" /\ pc[q] = "idle" /\ result[q] = "ok"
  /\ records = << >>
  /\ UsedSubnets(records) = {}
  /\ runtime # {}
  /\ runtime = dirs /\ compose = dirs

====
